---- MODULE Spec2Model ----
(***************************************************************************)
(* Gluten-free restaurant finder (jfbutler/swarm).                         *)
(*                                                                         *)
(* The repository holds three variants of one pipeline                     *)
(*   location resolution -> credential fetch -> place search -> rendering  *)
(* (glutenfreefinder.py, streamlitapp.py, searchplaces.py) and a stand-    *)
(* alone copy of get_secret (secrets.py).  The module models               *)
(*   - the pure helpers (format_address, the two location resolvers,       *)
(*     get_secret, the result mapping of search_gluten_free_restaurants)   *)
(*     as operators over Python-like values, and                           *)
(*   - the top-level flow of each variant as a state machine with one      *)
(*     action per blocking outbound call.                                  *)
(***************************************************************************)
EXTENDS Integers, Sequences, FiniteSets, TLC

VARIABLES
    variant,        \* which file runs: "glutenfreefinder", "streamlitapp", "searchplaces"
    pc,             \* position of the top-level flow
    invocation,     \* number of top-level invocations started so far
    calls,          \* outbound calls issued by the current invocation, in order
    output,         \* what the current invocation showed to the user, in order
    latitude,       \* main's latitude
    longitude,      \* main's longitude
    my_address,     \* main's my_address
    secrets,        \* main's secrets
    swarm_api_key,  \* main's swarm_api_key (module global in searchplaces.py)
    sent,           \* the place-search request of the current invocation and its answer
    restaurants,    \* main's restaurants
    mapData,        \* the records handed to pdk.Layer(data=df) (glutenfreefinder.py)
    store,          \* what the secret store holds under "swarm/api_key"
    cache,          \* st.cache_data's memo of get_secret (streamlitapp.py)
    fetches,        \* get_secret_value requests issued by the current invocation
    fn,             \* helper applied by a helper-level specification
    arg,            \* its argument
    ret             \* its result

vars == <<variant, pc, invocation, calls, output, latitude, longitude, my_address,
          secrets, swarm_api_key, sent, restaurants, mapData, store, cache,
          fetches, fn, arg, ret>>

pipelineVars == <<variant, pc, invocation, calls, output, latitude, longitude,
                  my_address, secrets, swarm_api_key, sent, restaurants, mapData,
                  store, cache, fetches>>

invocationVars == <<pc, calls, output, latitude, longitude, my_address, secrets,
                    swarm_api_key, sent, restaurants, mapData, fetches>>

helperVars == <<fn, arg, ret>>

(***************************************************************************)
(* Bounds of the model.                                                    *)
(***************************************************************************)
MaxLocLen == 4          \* longest "lat,lon" text the geolocation service answers
MaxResults == 2         \* longest batch the places service answers
MaxInvocations == 2     \* top-level invocations per behaviour

(***************************************************************************)
(* Python values.  A scalar is a record with a type tag; a dict is a       *)
(* function whose DOMAIN is the set of keys present.                       *)
(***************************************************************************)
None == [t |-> "none", s |-> "", n |-> 0]
Str(x) == [t |-> "str", s |-> x, n |-> 0]
Num(k) == [t |-> "num", s |-> "", n |-> k]
\* A str kept as its sequence of characters, where the code looks inside it.
Txt(c) == [t |-> "txt", c |-> c]

\* A dict held as a value (a member of another dict).
Dict(d) == [t |-> "dict", d |-> d]

\* bool(v): None, "", 0 and {} are falsy.
Truthy(v) ==
    CASE v.t = "none" -> FALSE
      [] v.t = "str"  -> v.s # ""
      [] v.t = "num"  -> v.n # 0
      [] v.t = "txt"  -> v.c # <<>>
      [] v.t = "dict" -> DOMAIN v.d # {}
      [] OTHER        -> TRUE

\* dict.get(key) with the default None.
DictGet(d, k) == IF k \in DOMAIN d THEN d[k] ELSE None

RECURSIVE Join(_, _)
\* sep.join(parts) for a sequence of str values.
Join(sep, parts) ==
    IF parts = <<>> THEN ""
    ELSE IF Len(parts) = 1 THEN parts[1].s
    ELSE parts[1].s \o sep \o Join(sep, Tail(parts))

(***************************************************************************)
(* format_address                                                          *)
(***************************************************************************)
AddressFields == <<"address", "locality", "region", "postcode", "country">>

\* (a variant that filters on `is not None` instead of truthiness)
format_address_keeping_empty(location) ==
    LET parts == [i \in 1..Len(AddressFields) |-> DictGet(location, AddressFields[i])]
        kept  == SelectSeq(parts, LAMBDA p : p.t = "str")
    IN  Join(", ", kept)

format_address(location) ==
    LET parts == [i \in 1..Len(AddressFields) |-> DictGet(location, AddressFields[i])]
        kept  == SelectSeq(parts, Truthy)
    IN  Join(", ", kept)

\* The structured locations the helper is applied to: every field is absent,
\* null, empty, or one non-empty text of its own.
FieldText ==
    [f \in {"address", "locality", "region", "postcode", "country"} |->
        CASE f = "address"  -> "1 Main St"
          [] f = "locality" -> "Austin"
          [] f = "region"   -> "TX"
          [] f = "postcode" -> "78701"
          [] f = "country"  -> "US"]

Locations ==
    UNION { { l \in [ks -> {None, Str("")} \cup {Str(FieldText[f]) : f \in ks}] :
                \A f \in ks : l[f].s \in {"", FieldText[f]} } :
            ks \in SUBSET DOMAIN FieldText }

\* A field counts when it is present with a non-empty text.
Present(location, f) ==
    f \in DOMAIN location /\ location[f].t = "str" /\ location[f].s # ""

RECURSIVE ExpectedAddress(_, _)
\* The fields that count from the i-th on, each followed by ", " exactly when
\* another one that counts comes after it.
ExpectedAddress(location, i) ==
    IF i > Len(AddressFields) THEN ""
    ELSE LET f == AddressFields[i]
             later == \E j \in (i + 1)..Len(AddressFields) :
                          Present(location, AddressFields[j])
         IN  IF ~Present(location, f) THEN ExpectedAddress(location, i + 1)
             ELSE IF later THEN location[f].s \o ", " \o ExpectedAddress(location, i + 1)
             ELSE location[f].s

\* C2: format_address returns exactly the present, non-empty fields, in the
\* order address, locality, region, postcode, country, joined by ", " with no
\* leading, trailing or doubled separator; absent, null and empty fields
\* contribute nothing, and with no field present the result is "".
FormatAddressJoinsPresentFields ==
    fn = "format_address" =>
        /\ ret = ExpectedAddress(arg, 1)
        /\ (\A f \in DOMAIN FieldText : ~Present(arg, f)) => ret = ""

\* A location with locality and country only (the other fields absent, null
\* and empty) was formatted as "Austin, US".
FormatAddressWitness ==
    /\ fn = "format_address"
    /\ "address" \notin DOMAIN arg
    /\ Present(arg, "locality")
    /\ "region" \in DOMAIN arg /\ arg["region"] = None
    /\ "postcode" \in DOMAIN arg /\ arg["postcode"] = Str("")
    /\ Present(arg, "country")
    /\ ret = "Austin, US"

(***************************************************************************)
(* Location resolvers: get_my_location and geocode_address.                *)
(***************************************************************************)
LocChars == {"0", "1", "-", ",", "x"}
Digits == {"0", "1"}

\* All texts over `chars` of length at most n.
Texts(chars, n) == UNION { [1..k -> chars] : k \in 0..n }

RECURSIVE Split(_)
\* str.split(",")
Split(cs) ==
    IF \A i \in 1..Len(cs) : cs[i] # "," THEN <<cs>>
    ELSE LET i == CHOOSE k \in 1..Len(cs) :
                      cs[k] = "," /\ \A j \in 1..(k - 1) : cs[j] # ","
         IN  <<SubSeq(cs, 1, i - 1)>> \o Split(SubSeq(cs, i + 1, Len(cs)))

\* Whether float(cs) succeeds, for texts over LocChars: an optional sign and
\* at least one digit (fractions, exponents, inf and nan need other characters).
IsFloatText(cs) ==
    LET body == IF cs # <<>> /\ cs[1] = "-" THEN Tail(cs) ELSE cs
    IN  body # <<>> /\ \A i \in 1..Len(body) : body[i] \in Digits

RECURSIVE DigitsValue(_)
DigitsValue(ds) ==
    IF ds = <<>> THEN 0
    ELSE 10 * DigitsValue(SubSeq(ds, 1, Len(ds) - 1))
         + (IF ds[Len(ds)] = "1" THEN 1 ELSE 0)

\* float(cs), for a text float() accepts.
FloatOf(cs) ==
    IF cs[1] = "-" THEN 0 - DigitsValue(Tail(cs)) ELSE DigitsValue(cs)

\* str(v) inside an f-string.
PyFormat(v) == IF v.t = "none" THEN "None" ELSE v.s

Located(lat, lon, label) ==
    [raised |-> FALSE, lat |-> lat, lon |-> lon, label |-> label]
Sentinel == Located(None, None, "Unknown Location")
Raised == [raised |-> TRUE, lat |-> None, lon |-> None, label |-> ""]

\* Outcome of a try body: it returned a value, raised, or ran off its end.
Returns(v) == [how |-> "return", value |-> v]
Raises == [how |-> "raise", value |-> Raised]
FallsThrough == [how |-> "fall", value |-> Raised]

\* The try body of get_my_location.  net is what requests.get and
\* response.json() produce: a connection error, a body that is no JSON, or
\* the decoded JSON object.
get_my_location_try(net) ==
    IF net.kind = "error" THEN Raises
    ELSE IF net.kind = "notjson" THEN Raises
    ELSE LET data    == net.data
             loc     == DictGet(data, "loc")
             address == PyFormat(DictGet(data, "city")) \o ", "
                        \o PyFormat(DictGet(data, "region")) \o ", "
                        \o PyFormat(DictGet(data, "country"))
         IN  IF Truthy(loc)
             THEN LET parts == Split(loc.c)
                  IN  IF Len(parts) = 2 /\ IsFloatText(parts[1]) /\ IsFloatText(parts[2])
                      THEN Returns(Located(Num(FloatOf(parts[1])),
                                           Num(FloatOf(parts[2])), address))
                      ELSE Raises
             ELSE FallsThrough

get_my_location_uncaught(net) ==
    LET r == get_my_location_try(net)
    IN  IF r.how = "return" THEN r.value
        ELSE IF r.how = "raise" /\ net.kind = "error" THEN Sentinel
        ELSE IF r.how = "raise" THEN Raised
        ELSE Sentinel

get_my_location(net) ==
    LET r == get_my_location_try(net)
    IN  IF r.how = "return" THEN r.value
        ELSE Sentinel       \* except Exception: print; then the final return

\* What the IP geolocation service can answer.
IpinfoData(n) ==
    { [k \in ks |-> CASE k = "loc"    -> l
                      [] k = "city"   -> Str("Austin")
                      [] k = "region" -> Str("TX")
                      [] OTHER        -> Str("US")] :
        ks \in { k \in SUBSET {"loc", "city", "region", "country"} :
                 {"region", "country"} \subseteq k },
        l \in {None} \cup {Txt(c) : c \in Texts(LocChars, n)} }

IpinfoAnswers(n) ==
    {[kind |-> "error", data |-> <<>>], [kind |-> "notjson", data |-> <<>>]}
    \cup {[kind |-> "json", data |-> d] : d \in IpinfoData(n)}

HTTP_OK == 200

\* dict.get(key, default)
DictGetOr(d, k, default) == IF k \in DOMAIN d THEN d[k] ELSE default

\* float(v) succeeds: v is a str that float() accepts (None: TypeError).
Floatable(v) == v.t = "txt" /\ IsFloatText(v.c)

\* The try body of geocode_address.  net is what requests.get produces: a
\* connection error, or a response with a status, a body that decodes as
\* JSON or not, and the decoded list of results.
geocode_address_try(address, net) ==
    IF net.kind = "error" THEN Raises
    ELSE IF net.status = HTTP_OK
    THEN IF ~net.json THEN Raises
         ELSE LET results == net.results
              IN  IF results # <<>>
                  THEN LET first == results[1]
                       IN  IF "lat" \notin DOMAIN first THEN Raises        \* KeyError
                           ELSE IF ~Floatable(first["lat"]) THEN Raises      \* ValueError
                           ELSE IF "lon" \notin DOMAIN first THEN Raises
                           ELSE IF ~Floatable(first["lon"]) THEN Raises
                           ELSE Returns(Located(
                                    Num(FloatOf(first["lat"].c)),
                                    Num(FloatOf(first["lon"].c)),
                                    DictGetOr(first, "display_name", Str(address)).s))
                  ELSE FallsThrough
    ELSE FallsThrough

geocode_address(address, net) ==
    LET r == geocode_address_try(address, net)
    IN  IF r.how = "return" THEN r.value
        ELSE Sentinel       \* except Exception: print; then the final return

\* What the geocoding service can answer.
CoordValues(n) == {None} \cup {Txt(c) : c \in Texts(LocChars \ {","}, n)}

GeocodeItems(n) ==
    { [k \in ks |-> CASE k = "lat" -> la
                      [] k = "lon" -> lo
                      [] OTHER     -> Str("New York, NY, USA")] :
        ks \in SUBSET {"lat", "lon", "display_name"},
        la \in CoordValues(n), lo \in CoordValues(n) }

SecondResult ==
    [k \in {"lat", "lon", "display_name"} |->
        CASE k = "lat" -> Txt(<<"1", "1">>)
          [] k = "lon" -> Txt(<<"1", "0">>)
          [] OTHER     -> Str("Elsewhere")]

NominatimAnswers(n) ==
    {[kind |-> "error", status |-> 0, json |-> FALSE, results |-> <<>>]}
    \cup {[kind |-> "response", status |-> st, json |-> TRUE, results |-> <<>>] :
             st \in {HTTP_OK, 404, 500}}
    \cup {[kind |-> "response", status |-> HTTP_OK, json |-> FALSE, results |-> <<>>]}
    \cup {[kind |-> "response", status |-> st, json |-> TRUE, results |-> <<d>>] :
             st \in {HTTP_OK, 500}, d \in GeocodeItems(n)}
    \cup {[kind |-> "response", status |-> HTTP_OK, json |-> TRUE,
           results |-> <<d, SecondResult>>] : d \in GeocodeItems(n)}

(***************************************************************************)
(* Texts as byte sequences: json.loads and base64.b64decode.               *)
(***************************************************************************)
\* The printable ASCII characters, code 32 first.
Printable ==
    <<" ", "!", "quote", "#", "$", "%", "&", "'", "(", ")", "*", "+", ",", "-", ".", "/",
      "0", "1", "2", "3", "4", "5", "6", "7", "8", "9", ":", ";", "<", "=", ">", "?",
      "@", "A", "B", "C", "D", "E", "F", "G", "H", "I", "J", "K", "L", "M", "N", "O",
      "P", "Q", "R", "S", "T", "U", "V", "W", "X", "Y", "Z", "[", "backslash", "]", "^", "_",
      "backtick", "a", "b", "c", "d", "e", "f", "g", "h", "i", "j", "k", "l", "m", "n", "o",
      "p", "q", "r", "s", "t", "u", "v", "w", "x", "y", "z", "{", "|", "}", "~">>

Ord(c) == 31 + (CHOOSE i \in 1..Len(Printable) : Printable[i] = c)

\* The bytes of a text given character by character.
Bytes(chars) == [i \in 1..Len(chars) |-> Ord(chars[i])]

QUOTE == Ord("quote")
COLON == Ord(":")
COMMA == Ord(",")
LBRACE == Ord("{")
RBRACE == Ord("}")
PAD == Ord("=")

\* A JSON string starting at bs[i]: the text between the quotes and the index
\* after the closing quote (no escapes).
ParseString(bs, i) ==
    IF i > Len(bs) \/ bs[i] # QUOTE
    THEN [ok |-> FALSE, text |-> <<>>, next |-> i]
    ELSE IF \A j \in (i + 1)..Len(bs) : bs[j] # QUOTE
    THEN [ok |-> FALSE, text |-> <<>>, next |-> i]
    ELSE LET j == CHOOSE k \in (i + 1)..Len(bs) :
                      bs[k] = QUOTE /\ \A m \in (i + 1)..(k - 1) : bs[m] # QUOTE
         IN  [ok |-> TRUE, text |-> SubSeq(bs, i + 1, j - 1), next |-> j + 1]

JsonError == [ok |-> FALSE, kind |-> "error", obj |-> <<>>, text |-> <<>>]
JsonObject(o) == [ok |-> TRUE, kind |-> "dict", obj |-> o, text |-> <<>>]
JsonString(t) == [ok |-> TRUE, kind |-> "str", obj |-> <<>>, text |-> t]

RECURSIVE ParsePairs(_, _, _)
\* The members of an object from bs[i] on; a repeated key keeps its last value.
ParsePairs(bs, i, acc) ==
    LET k == ParseString(bs, i)
    IN  IF ~k.ok \/ k.next > Len(bs) \/ bs[k.next] # COLON THEN JsonError
        ELSE LET v == ParseString(bs, k.next + 1)
                 more == [x \in DOMAIN acc \cup {k.text} |->
                             IF x = k.text THEN v.text ELSE acc[x]]
             IN  IF ~v.ok \/ v.next > Len(bs) THEN JsonError
                 ELSE IF bs[v.next] = RBRACE /\ v.next = Len(bs) THEN JsonObject(more)
                 ELSE IF bs[v.next] = COMMA THEN ParsePairs(bs, v.next + 1, more)
                 ELSE JsonError

\* json.loads on the documents the secret store is given here: a string, or
\* an object whose members are strings, without whitespace or escapes.
\* Every other text is rejected (JSONDecodeError).
JsonLoads(bs) ==
    IF bs = <<>> THEN JsonError
    ELSE IF bs[1] = QUOTE
    THEN LET t == ParseString(bs, 1)
         IN  IF t.ok /\ t.next = Len(bs) + 1 THEN JsonString(t.text) ELSE JsonError
    ELSE IF bs[1] = LBRACE
    THEN IF Len(bs) = 2 /\ bs[2] = RBRACE THEN JsonObject(<<>>)
         ELSE ParsePairs(bs, 2, <<>>)
    ELSE JsonError

\* The base64 alphabet: A-Z, a-z, 0-9, +, /.
B64Char(v) ==
    IF v < 26 THEN Ord("A") + v
    ELSE IF v < 52 THEN Ord("a") + (v - 26)
    ELSE IF v < 62 THEN Ord("0") + (v - 52)
    ELSE IF v = 62 THEN Ord("+") ELSE Ord("/")

IsB64Char(c) ==
    \/ c \in Ord("A")..Ord("Z") \/ c \in Ord("a")..Ord("z")
    \/ c \in Ord("0")..Ord("9") \/ c \in {Ord("+"), Ord("/")}

B64Value(c) ==
    IF c \in Ord("A")..Ord("Z") THEN c - Ord("A")
    ELSE IF c \in Ord("a")..Ord("z") THEN c - Ord("a") + 26
    ELSE IF c \in Ord("0")..Ord("9") THEN c - Ord("0") + 52
    ELSE IF c = Ord("+") THEN 62 ELSE 63

RECURSIVE B64Encode(_)
\* base64.b64encode: three bytes to four characters, "=" padding at the end.
B64Encode(bs) ==
    IF bs = <<>> THEN <<>>
    ELSE IF Len(bs) = 1
    THEN <<B64Char(bs[1] \div 4), B64Char((bs[1] % 4) * 16), PAD, PAD>>
    ELSE IF Len(bs) = 2
    THEN <<B64Char(bs[1] \div 4), B64Char((bs[1] % 4) * 16 + bs[2] \div 16),
           B64Char((bs[2] % 16) * 4), PAD>>
    ELSE <<B64Char(bs[1] \div 4), B64Char((bs[1] % 4) * 16 + bs[2] \div 16),
           B64Char((bs[2] % 16) * 4 + bs[3] \div 64), B64Char(bs[3] % 64)>>
         \o B64Encode(SubSeq(bs, 4, Len(bs)))

RECURSIVE B64Quads(_)
\* Four characters to three bytes; a padded last quad gives one or two.
B64Quads(cs) ==
    IF cs = <<>> THEN <<>>
    ELSE LET a == B64Value(cs[1])
             b == B64Value(cs[2])
         IN  IF cs[3] = PAD THEN <<a * 4 + b \div 16>>
             ELSE LET c == B64Value(cs[3])
                  IN  IF cs[4] = PAD
                      THEN <<a * 4 + b \div 16, (b % 16) * 16 + c \div 4>>
                      ELSE <<a * 4 + b \div 16, (b % 16) * 16 + c \div 4,
                             (c % 4) * 64 + B64Value(cs[4])>>
                           \o B64Quads(SubSeq(cs, 5, Len(cs)))

\* base64.b64decode(cs) without validate: characters outside the alphabet are
\* dropped, and what is left must be whole quads, padded only at the end
\* (else binascii.Error: incorrect padding).
B64Decode(cs) ==
    LET kept == SelectSeq(cs, LAMBDA c : IsB64Char(c) \/ c = PAD)
        n == Len(kept)
        padOk == \A i \in 1..n : kept[i] = PAD =>
                    /\ i > n - 2
                    /\ i > 2
                    /\ \A j \in i..n : kept[j] = PAD
    IN  IF n % 4 # 0 \/ ~padOk THEN [ok |-> FALSE, bytes |-> <<>>]
        ELSE [ok |-> TRUE, bytes |-> B64Quads(kept)]

(***************************************************************************)
(* get_secret                                                              *)
(***************************************************************************)
Files == {"glutenfreefinder", "streamlitapp", "searchplaces", "secrets"}

\* The files whose import list names base64.
ImportsBase64(file) == file \in {"glutenfreefinder", "streamlitapp"}

SecretRaised == [raised |-> TRUE, value |-> JsonError]
SecretReturned(v) == [raised |-> FALSE, value |-> v]

\* get_secret as defined in `file`.  response is what get_secret_value
\* answers: a ClientError, or a response holding SecretString or SecretBinary.
get_secret(file, response) ==
    IF response.kind = "ClientError" THEN SecretRaised      \* raise Exception(...)
    ELSE IF response.kind = "SecretString"
    THEN LET v == JsonLoads(response.payload)
         IN  IF v.ok THEN SecretReturned(v) ELSE SecretRaised
    ELSE IF ~ImportsBase64(file) THEN SecretRaised           \* NameError: base64
    ELSE LET decoded == B64Decode(response.payload)
         IN  IF ~decoded.ok THEN SecretRaised                \* binascii.Error
             ELSE LET v == JsonLoads(decoded.bytes)
                  IN  IF v.ok THEN SecretReturned(v) ELSE SecretRaised

\* The api keys the store is given, and the documents around them.
ApiKeyName == Bytes(<<"a", "p", "i", "_", "k", "e", "y">>)
Keys == {Bytes(<<"X", "Y", "Z">>), Bytes(<<"f", "s", "q", "3">>), Bytes(<<"K">>)}

\* "text" as a JSON string, and {"name":"value", ...} as a JSON object.
Quoted(text) == <<QUOTE>> \o text \o <<QUOTE>>
Member(name, value) == Quoted(name) \o <<COLON>> \o Quoted(value)

CredentialJson(key) == <<LBRACE>> \o Member(ApiKeyName, key) \o <<RBRACE>>
CredentialJsonWithUser(key) ==
    <<LBRACE>> \o Member(Bytes(<<"u">>), Bytes(<<"m", "e">>)) \o <<COMMA>>
    \o Member(ApiKeyName, key) \o <<RBRACE>>
OtherJson == <<LBRACE>> \o Member(Bytes(<<"k", "e", "y">>), Bytes(<<"1">>)) \o <<RBRACE>>
NotJson == Bytes(<<"n", "o", "t", " ", "j", "s", "o", "n">>)

\* A store entry: the response get_secret_value gives (a SecretBinary is the
\* base64 text of the document), and the api key a
\* well-formed credential document in it carries ("encodes", <<>> if none).
StoreEntry(kind, payload, key) == [kind |-> kind, payload |-> payload, encodes |-> key]

GoodEntries ==
    {StoreEntry("SecretString", CredentialJson(k), k) : k \in Keys}
    \cup {StoreEntry("SecretBinary", B64Encode(CredentialJson(k)), k) : k \in Keys}
    \cup {StoreEntry("SecretString", CredentialJsonWithUser(k), k) : k \in Keys}
    \cup {StoreEntry("SecretBinary", B64Encode(CredentialJsonWithUser(k)), k) : k \in Keys}

BadEntries ==
    { StoreEntry("ClientError", <<>>, <<>>),
      StoreEntry("SecretString", NotJson, <<>>),
      StoreEntry("SecretString", OtherJson, <<>>),
      StoreEntry("SecretString", Bytes(<<"{", "}">>), <<>>),
      StoreEntry("SecretString", Quoted(Bytes(<<"K">>)), <<>>),
      StoreEntry("SecretBinary", B64Encode(NotJson), <<>>),
      StoreEntry("SecretBinary", B64Encode(OtherJson), <<>>),
      StoreEntry("SecretBinary", OtherJson, <<>>) }

(***************************************************************************)
(* search_gluten_free_restaurants                                          *)
(***************************************************************************)
SearchFiles == {"glutenfreefinder", "streamlitapp", "searchplaces"}

\* The file whose result mapping filters on geocodes.main and emits lat/lon.
EmitsCoordinates(file) == file = "glutenfreefinder"

Skipped == [how |-> "skip", rec |-> <<>>]
Failed == [how |-> "raise", rec |-> <<>>]
Emitted(r) == [how |-> "record", rec |-> r]

\* The record a result item maps to once it is past the filter:
\* place["name"], format_address(place["location"]) (KeyError when the key is
\* missing, AttributeError when location is not a dict).
NameAndAddress(place) ==
    IF "name" \notin DOMAIN place THEN Failed
    ELSE IF "location" \notin DOMAIN place THEN Failed
    ELSE IF place["location"].t # "dict" THEN Failed
    ELSE Emitted([name |-> place["name"],
                  address |-> format_address(place["location"].d)])

\* One step of the list comprehension of glutenfreefinder.py: the filter
\* place.get("geocodes", {}).get("main"), then the four-field record.
MapPlaceWithCoordinates(place) ==
    LET geocodes == DictGetOr(place, "geocodes", Dict(<<>>))
    IN  IF geocodes.t # "dict" THEN Failed                   \* None.get
        ELSE LET main == DictGet(geocodes.d, "main")
             IN  IF ~Truthy(main) THEN Skipped
                 ELSE LET base == NameAndAddress(place)
                      IN  IF base.how = "raise" THEN Failed
                          ELSE IF main.t # "dict" THEN Failed
                          ELSE Emitted([name |-> base.rec.name,
                                        address |-> base.rec.address,
                                        lat |-> DictGet(main.d, "latitude"),
                                        lon |-> DictGet(main.d, "longitude")])

MapPlace(file, place) ==
    IF EmitsCoordinates(file) THEN MapPlaceWithCoordinates(place)
    ELSE NameAndAddress(place)

RECURSIVE MapResults(_, _)
\* The list comprehension over results: the first item that raises ends it.
MapResults(file, results) ==
    IF results = <<>> THEN [raised |-> FALSE, value |-> <<>>]
    ELSE LET head == MapPlace(file, results[1])
             rest == MapResults(file, Tail(results))
         IN  IF head.how = "raise" \/ rest.raised THEN [raised |-> TRUE, value |-> <<>>]
             ELSE IF head.how = "skip" THEN rest
             ELSE [raised |-> FALSE, value |-> <<head.rec>> \o rest.value]

\* search_gluten_free_restaurants of `file` on the answer of the places
\* service: what it reports (st.error / print), and what it returns.
search_gluten_free_restaurants(file, response) ==
    IF response.status # HTTP_OK
    THEN [raised |-> FALSE,
          diag |-> <<[kind |-> "error", info |-> <<response.status, response.text>>]>>,
          value |-> <<>>]
    ELSE IF ~response.json
    THEN [raised |-> TRUE, diag |-> <<>>, value |-> <<>>]   \* response.json() raises
    ELSE LET results == IF response.hasResults THEN response.results ELSE <<>>
             mapped  == MapResults(file, results)
         IN  [raised |-> mapped.raised, diag |-> <<>>, value |-> mapped.value]

\* What the places service can answer.
SomeLocation ==
    [f \in {"locality", "region", "country"} |->
        IF f = "region" THEN None ELSE Str(FieldText[f])]

MainValues ==
    {None, Dict(<<>>)}
    \cup {Dict([k \in ks |-> IF k = "latitude" THEN Num(1) ELSE Num(2)]) :
            ks \in (SUBSET {"latitude", "longitude"}) \ {{}}}

GeocodesValues ==
    {None, Dict(<<>>)} \cup {Dict([k \in {"main"} |-> m]) : m \in MainValues}

Places ==
    { [k \in ks |-> CASE k = "name"     -> Str("Wild Wood")
                      [] k = "location" -> Dict(SomeLocation)
                      [] OTHER          -> g] :
        ks \in SUBSET {"name", "location", "geocodes"}, g \in GeocodesValues }

Batches(items, n) == UNION { [1..k -> items] : k \in 0..n }

Answer(status, text, json, hasResults, results) ==
    [status |-> status, text |-> text, json |-> json,
     hasResults |-> hasResults, results |-> results]

SearchAnswers(items, n) ==
    { Answer(429, "rate limited", TRUE, FALSE, <<>>),
      Answer(500, "server error", FALSE, FALSE, <<>>),
      Answer(HTTP_OK, "html", FALSE, FALSE, <<>>),
      Answer(HTTP_OK, "json", TRUE, FALSE, <<>>) }
    \cup {Answer(HTTP_OK, "json", TRUE, TRUE, b) : b \in Batches(items, n)}

(***************************************************************************)
(* State of a flow that has not started, and of no helper applied.         *)
(***************************************************************************)
NoRequest ==
    [issued |-> FALSE, lat |-> None, lon |-> None, key |-> None,
     status |-> 0, text |-> ""]

FreshInvocation ==
    /\ pc = "start"
    /\ calls = <<>>
    /\ output = <<>>
    /\ latitude = None
    /\ longitude = None
    /\ my_address = ""
    /\ secrets = JsonError
    /\ swarm_api_key = None
    /\ sent = NoRequest
    /\ restaurants = <<>>
    /\ mapData = <<>>
    /\ fetches = 0

NoHelper == fn = "none" /\ arg = <<>> /\ ret = <<>>

NoPipeline ==
    /\ FreshInvocation
    /\ variant = "none"
    /\ invocation = 0
    /\ store = <<>>
    /\ cache = <<>>

(***************************************************************************)
(* Helper-level specification: format_address applied to every location.   *)
(***************************************************************************)
InitFormat ==
    /\ NoPipeline
    /\ fn = "none"
    /\ arg \in Locations
    /\ ret = <<>>

CallFormatAddress ==
    /\ fn = "none"
    /\ fn' = "format_address"
    /\ ret' = format_address(arg)
    /\ UNCHANGED <<arg, pipelineVars>>

SpecFormat == InitFormat /\ [][CallFormatAddress]_vars

(***************************************************************************)
(* Helper-level specification: each resolver applied to every answer of   *)
(* its lookup service.                                                     *)
(***************************************************************************)
\* A "lat,lon" text of n characters leaves n - 2 for the longer coordinate.
ResolverCalls(n) ==
    {[who |-> "get_my_location", address |-> "", net |-> a] :
        a \in IpinfoAnswers(n)}
    \cup {[who |-> "geocode_address", address |-> "New York, NY", net |-> a] :
             a \in NominatimAnswers(n - 2)}

InitResolver ==
    /\ NoPipeline
    /\ fn = "none"
    /\ arg \in ResolverCalls(MaxLocLen)
    /\ ret = <<>>

CallGetMyLocation ==
    /\ fn = "none"
    /\ arg.who = "get_my_location"
    /\ fn' = "get_my_location"
    /\ ret' = get_my_location(arg.net)
    /\ UNCHANGED <<arg, pipelineVars>>

CallGeocodeAddress ==
    /\ fn = "none"
    /\ arg.who = "geocode_address"
    /\ fn' = "geocode_address"
    /\ ret' = geocode_address(arg.address, arg.net)
    /\ UNCHANGED <<arg, pipelineVars>>

NextResolver == CallGetMyLocation \/ CallGeocodeAddress

SpecResolver == InitResolver /\ [][NextResolver]_vars

(***************************************************************************)
(* Helper-level specification: get_secret of every file applied to every   *)
(* store entry.                                                            *)
(***************************************************************************)
InitSecret ==
    /\ NoPipeline
    /\ fn = "none"
    /\ arg \in [file : Files, entry : GoodEntries \cup BadEntries]
    /\ ret = <<>>

CallGetSecret ==
    /\ fn = "none"
    /\ fn' = "get_secret"
    /\ ret' = get_secret(arg.file, arg.entry)
    /\ UNCHANGED <<arg, pipelineVars>>

SpecSecret == InitSecret /\ [][CallGetSecret]_vars

\* A text of the form <float>,<float>.
IsLatLonText(cs) ==
    \E i \in 1..Len(cs) :
        /\ cs[i] = ","
        /\ IsFloatText(SubSeq(cs, 1, i - 1))
        /\ IsFloatText(SubSeq(cs, i + 1, Len(cs)))

\* The failures of the two lookups, read off the service's answer.
IpLookupFailed(net) ==
    \/ net.kind # "json"
    \/ "loc" \notin DOMAIN net.data
    \/ net.data["loc"].t # "txt"
    \/ ~IsLatLonText(net.data["loc"].c)

GeocodeFailed(net) ==
    \/ net.kind = "error"
    \/ net.status # HTTP_OK
    \/ ~net.json
    \/ net.results = <<>>
    \/ "lat" \notin DOMAIN net.results[1]
    \/ "lon" \notin DOMAIN net.results[1]
    \/ ~Floatable(net.results[1]["lat"])
    \/ ~Floatable(net.results[1]["lon"])

LookupFailed ==
    IF arg.who = "get_my_location" THEN IpLookupFailed(arg.net)
    ELSE GeocodeFailed(arg.net)

\* C3: neither resolver lets an exception reach its caller; whenever the
\* lookup failed (connection error, non-200 geocoding status, body that is no
\* JSON, missing or null `loc`, empty result list, first result without lat
\* or lon, coordinate text float() rejects) the result is exactly
\* (None, None, "Unknown Location"); and a coordinate is non-null only when
\* both latitude and longitude were parsed.
ResolversDegradeToSentinel ==
    fn \in {"get_my_location", "geocode_address"} =>
        /\ ~ret.raised
        /\ LookupFailed => ret = Sentinel
        /\ (ret.lat # None \/ ret.lon # None) =>
               ~LookupFailed /\ ret.lat.t = "num" /\ ret.lon.t = "num"

\* get_my_location was given a `loc` whose longitude does not parse ("1,x")
\* and answered the sentinel.
ResolverWitness ==
    /\ fn = "get_my_location"
    /\ arg.net.kind = "json"
    /\ "loc" \in DOMAIN arg.net.data
    /\ arg.net.data["loc"] = Txt(<<"1", ",", "x">>)
    /\ ret = Sentinel

\* C5: get_secret of every file that defines it returns the parsed JSON
\* credential for both payload shapes: a SecretString is parsed directly, a
\* SecretBinary is base64-decoded and parsed, so a binary payload encoding
\* {"api_key": "XYZ"} yields a credential whose api_key is "XYZ".
GetSecretParsesBothShapes ==
    (fn = "get_secret" /\ arg.entry.encodes # <<>>) =>
        /\ ~ret.raised
        /\ ret.value.kind = "dict"
        /\ ApiKeyName \in DOMAIN ret.value.obj
        /\ ret.value.obj[ApiKeyName] = arg.entry.encodes

(***************************************************************************)
(* Helper-level specification: search_gluten_free_restaurants of every     *)
(* file applied to every answer of the places service.                     *)
(***************************************************************************)
InitSearch ==
    /\ NoPipeline
    /\ fn = "none"
    /\ arg \in [file : SearchFiles, response : SearchAnswers(Places, MaxResults)]
    /\ ret = <<>>

CallSearch ==
    /\ fn = "none"
    /\ fn' = "search_gluten_free_restaurants"
    /\ ret' = search_gluten_free_restaurants(arg.file, arg.response)
    /\ UNCHANGED <<arg, pipelineVars>>

SpecSearch == InitSearch /\ [][CallSearch]_vars

\* A result item with name, location and geocodes.main.{latitude,longitude}.
WellFormed(place) ==
    /\ DOMAIN place = {"name", "location", "geocodes"}
    /\ place["geocodes"].t = "dict"
    /\ "main" \in DOMAIN place["geocodes"].d
    /\ place["geocodes"].d["main"].t = "dict"
    /\ DOMAIN place["geocodes"].d["main"].d = {"latitude", "longitude"}

\* C8: on a 200 response search_gluten_free_restaurants never raises: an item
\* missing name, location or geocodes, or with a null geocodes or null
\* geocodes.main, gives absent values or is skipped, and the other items of
\* the batch are still returned.
SearchNeverRaisesOn200 ==
    (fn = "search_gluten_free_restaurants"
        /\ arg.response.status = HTTP_OK /\ arg.response.json) =>
        /\ ~ret.raised
        /\ Len(ret.value) >=
               Cardinality({i \in DOMAIN arg.response.results :
                               WellFormed(arg.response.results[i])})

(***************************************************************************)
(* The top-level flow: main of glutenfreefinder.py and streamlitapp.py,    *)
(* the module-level script of searchplaces.py.  One action per blocking    *)
(* outbound call, taken together with the code that follows it up to the   *)
(* next call.                                                              *)
(***************************************************************************)
Variants == SearchFiles

\* The variants that render with streamlit (st.error, st.success, ...).
UsesStreamlit(v) == v \in {"glutenfreefinder", "streamlitapp"}

\* (the decorator on every variant's get_secret)
MemoizedEverywhere(v) == TRUE

\* The variant whose get_secret carries @st.cache_data.
Memoized(v) == v = "streamlitapp"

Shown(kind, info) == [kind |-> kind, info |-> info]

\* Answers of the lookup services and of the places service used in the flow.
FlowLocTexts ==
    { <<"0", ",", "1">>, <<"1", ",", "0">>, <<"1", ",", "1">>,
      <<"-", "1", ",", "1">>, <<"1", ",", "x">>, <<"1">>, <<>> }

FlowIpinfoAnswers ==
    { a \in IpinfoAnswers(0) : a.kind # "json" \/ "loc" \notin DOMAIN a.data }
    \cup { [kind |-> "json",
            data |-> [k \in {"loc", "city", "region", "country"} |->
                        CASE k = "loc"    -> Txt(c)
                          [] k = "city"   -> Str("Austin")
                          [] k = "region" -> Str("TX")
                          [] OTHER        -> Str("US")]] : c \in FlowLocTexts }

FlowStoreEntries ==
    { e \in GoodEntries : e.encodes \in {Bytes(<<"X", "Y", "Z">>), Bytes(<<"K">>)}
                          /\ e.payload \in {CredentialJson(e.encodes),
                                            B64Encode(CredentialJson(e.encodes))} }
    \cup { e \in BadEntries : e.kind # "SecretBinary" /\ e.payload # Quoted(Bytes(<<"K">>)) }

FlowPlaces ==
    { p \in Places :
        \/ WellFormed(p)
        \/ DOMAIN p = {"name", "location"}
        \/ DOMAIN p = {"location", "geocodes"} /\ p["geocodes"].t = "none"
        \/ /\ DOMAIN p = {"name", "location", "geocodes"}
           /\ p["geocodes"].t = "dict"
           /\ "main" \in DOMAIN p["geocodes"].d
           /\ p["geocodes"].d["main"].t = "dict"
           /\ DOMAIN p["geocodes"].d["main"].d = {"latitude"} }

\* (the early return left out)
LocationCheckDropped(lat) == FALSE

\* `if not latitude:`
LocationUndetermined(lat) == ~Truthy(lat)

\* (secrets.get("api_key") in place of secrets["api_key"])
ApiKeyOrNone(parsed) ==
    IF parsed.kind # "dict" THEN [raised |-> TRUE, key |-> None]
    ELSE IF ApiKeyName \in DOMAIN parsed.obj
    THEN [raised |-> FALSE, key |-> Txt(parsed.obj[ApiKeyName])]
    ELSE [raised |-> FALSE, key |-> None]

\* secrets["api_key"]: the value, or an exception when secrets is no dict or
\* has no such key.
ApiKeyOf(parsed) ==
    IF parsed.kind = "dict" /\ ApiKeyName \in DOMAIN parsed.obj
    THEN [raised |-> FALSE, key |-> Txt(parsed.obj[ApiKeyName])]
    ELSE [raised |-> TRUE, key |-> None]

InitFlow ==
    /\ FreshInvocation
    /\ NoHelper
    /\ variant \in Variants
    /\ invocation = 1
    /\ store \in FlowStoreEntries
    /\ cache = <<>>

\* The location step and the check after it.  loc is what the resolver
\* returned, outbound whether a lookup request was issued.
AfterLocation(loc, outbound) ==
    /\ calls' = IF outbound THEN Append(calls, "location") ELSE calls
    /\ IF loc.raised
       THEN /\ pc' = "crashed"
            /\ UNCHANGED <<latitude, longitude, my_address, output>>
       ELSE /\ latitude' = loc.lat
            /\ longitude' = loc.lon
            /\ my_address' = loc.label
            /\ IF LocationUndetermined(loc.lat)
               THEN /\ output' = Append(output, Shown("location_error", <<>>))
                    /\ pc' = "stopped"
               ELSE /\ output' = IF UsesStreamlit(variant)
                                 THEN Append(output, Shown("success", <<loc.label>>))
                                 ELSE output
                    /\ pc' = "fetch"
    /\ UNCHANGED <<variant, invocation, secrets, swarm_api_key, sent, restaurants,
                   mapData, store, cache, fetches, helperVars>>

\* "Use my current location" (the only mode of streamlitapp.py and
\* searchplaces.py).
ResolveByNetworkAddress ==
    /\ pc = "start"
    /\ \E net \in FlowIpinfoAnswers : AfterLocation(get_my_location(net), TRUE)

\* "Enter a different address" with a text entered (glutenfreefinder.py).
ResolveByAddress ==
    /\ pc = "start"
    /\ variant = "glutenfreefinder"
    /\ \E net \in NominatimAnswers(1) :
           AfterLocation(geocode_address("New York, NY", net), TRUE)

\* "Enter a different address" with nothing entered (glutenfreefinder.py).
NoAddressEntered ==
    /\ pc = "start"
    /\ variant = "glutenfreefinder"
    /\ AfterLocation(Located(None, None, "No address entered"), FALSE)

\* secrets = get_secret("swarm/api_key"); swarm_api_key = secrets["api_key"].
\* Under @st.cache_data a memoized result is returned without a request, and
\* a result that is returned (not an exception) is memoized.
FetchCredential ==
    /\ pc = "fetch"
    /\ LET hit == Memoized(variant) /\ cache # <<>>
           got == IF hit THEN SecretReturned(cache[1]) ELSE get_secret(variant, store)
           key == ApiKeyOf(got.value)
       IN  /\ calls' = IF hit THEN calls ELSE Append(calls, "secret")
           /\ fetches' = IF hit THEN fetches ELSE fetches + 1
           /\ cache' = IF Memoized(variant) /\ ~hit /\ ~got.raised
                       THEN <<got.value>> ELSE cache
           /\ IF got.raised
              THEN pc' = "crashed" /\ UNCHANGED <<secrets, swarm_api_key>>
              ELSE /\ secrets' = got.value
                   /\ IF key.raised
                      THEN pc' = "crashed" /\ UNCHANGED swarm_api_key
                      ELSE pc' = "search" /\ swarm_api_key' = key.key
    /\ UNCHANGED <<variant, invocation, output, latitude, longitude, my_address,
                   sent, restaurants, mapData, store, helperVars>>

\* What main shows after the search returned `found`.
Rendering(v, found) ==
    IF UsesStreamlit(v)
    THEN IF found = <<>> THEN <<Shown("no_results", <<>>)>>
         ELSE <<Shown("list", found)>>
              \o (IF v = "glutenfreefinder" THEN <<Shown("map", found)>> ELSE <<>>)
    ELSE <<Shown("list", found)>>

\* restaurants = search_gluten_free_restaurants(latitude, longitude, key) and
\* the rendering of the result.
SearchPlaces ==
    /\ pc = "search"
    /\ \E response \in SearchAnswers(FlowPlaces, MaxResults) :
         LET r == search_gluten_free_restaurants(variant, response)
         IN  /\ calls' = Append(calls, "search")
             /\ sent' = [issued |-> TRUE, lat |-> latitude, lon |-> longitude,
                         key |-> swarm_api_key, status |-> response.status,
                         text |-> response.text]
             /\ IF r.raised
                THEN /\ pc' = "crashed"
                     /\ output' = output \o r.diag
                     /\ UNCHANGED <<restaurants, mapData>>
                ELSE /\ pc' = "done"
                     /\ restaurants' = r.value
                     /\ output' = output \o r.diag \o Rendering(variant, r.value)
                     /\ mapData' = IF variant = "glutenfreefinder" THEN r.value
                                   ELSE mapData
    /\ UNCHANGED <<variant, invocation, latitude, longitude, my_address, secrets,
                   swarm_api_key, store, cache, fetches, helperVars>>

Ended == pc \in {"stopped", "crashed", "done"}

\* The next top-level invocation: a streamlit rerun, or the script run again.
\* Only the secret store and st.cache_data's memo outlive an invocation.
NewInvocation ==
    /\ Ended
    /\ invocation < MaxInvocations
    /\ invocation' = invocation + 1
    /\ pc' = "start"
    /\ calls' = <<>>
    /\ output' = <<>>
    /\ latitude' = None
    /\ longitude' = None
    /\ my_address' = ""
    /\ secrets' = JsonError
    /\ swarm_api_key' = None
    /\ sent' = NoRequest
    /\ restaurants' = <<>>
    /\ mapData' = <<>>
    /\ fetches' = 0
    /\ UNCHANGED <<variant, store, cache, helperVars>>

\* The stored secret is changed between two invocations: after one ended and
\* before the next one issues anything.
RotateSecret ==
    /\ pc = "start"
    /\ invocation > 1
    /\ \E e \in FlowStoreEntries \ {store} : store' = e
    /\ UNCHANGED <<variant, invocation, invocationVars, cache, helperVars>>

Next ==
    \/ ResolveByNetworkAddress
    \/ ResolveByAddress
    \/ NoAddressEntered
    \/ FetchCredential
    \/ SearchPlaces
    \/ NewInvocation
    \/ RotateSecret

Spec == InitFlow /\ [][Next]_vars

\* C1: whenever the location step leaves the coordinates null (the resolver
\* returned the sentinel), the flow stops: no credential fetch and no place
\* search is issued in that invocation, and the only thing shown is the
\* "could not determine location" message.
SentinelStopsPipeline ==
    (pc # "start" /\ latitude = None) =>
        /\ pc = "stopped"
        /\ \A i \in DOMAIN calls : calls[i] = "location"
        /\ fetches = 0
        /\ ~sent.issued
        /\ output = <<Shown("location_error", <<>>)>>

\* The resolver answered the sentinel and the invocation ended stopped after
\* the one lookup.
SentinelWitness ==
    /\ pc = "stopped"
    /\ my_address = "Unknown Location"
    /\ latitude = None
    /\ calls = <<"location">>

\* C10: for every resolved location with non-null coordinates (latitude 0
\* and longitude 0 included) the flow does not stop at the location check,
\* and a place search it issues carries exactly those coordinates.
ResolvedLocationProceeds ==
    (pc # "start" /\ latitude.t = "num") =>
        /\ pc # "stopped"
        /\ sent.issued => (sent.lat = latitude /\ sent.lon = longitude)

\* The place of an outbound call in the order location, credential, search.
CallRank(c) ==
    CASE c = "location" -> 1
      [] c = "secret"   -> 2
      [] c = "search"   -> 3

\* C7: the outbound calls of an invocation are issued in the order location,
\* credential, search, each at most once; a place search is issued only with
\* a resolved location and a fetched credential containing api_key, so after
\* a credential failure no search request is sent.
CallsInOrderWithCredential ==
    /\ \A i, j \in DOMAIN calls : i < j => CallRank(calls[i]) < CallRank(calls[j])
    /\ sent.issued <=> (\E i \in DOMAIN calls : calls[i] = "search")
    /\ sent.issued =>
          /\ latitude.t = "num"
          /\ secrets.kind = "dict"
          /\ ApiKeyName \in DOMAIN secrets.obj
          /\ sent.key = Txt(secrets.obj[ApiKeyName])
    /\ (pc = "crashed" /\ swarm_api_key = None) => ~sent.issued

\* The store held a JSON object without api_key: the invocation ended in the
\* credential step without a search request.
CredentialFailureWitness ==
    /\ pc = "crashed"
    /\ calls = <<"location", "secret">>
    /\ secrets.kind = "dict"
    /\ ApiKeyName \notin DOMAIN secrets.obj
    /\ ~sent.issued

\* C9: invocations share no state: each invocation that reaches the
\* credential step issues its own fetch, and the api key in its search
\* request is the one the store holds at that invocation.
EveryInvocationFetchesStoredKey ==
    sent.issued => (fetches = 1 /\ sent.key = Txt(store.encodes))

\* C9 as amended: in glutenfreefinder.py and searchplaces.py every invocation
\* that searches issued its own fetch and sends the key the store holds; in
\* streamlitapp.py get_secret is memoized across invocations, so an
\* invocation fetches only when nothing is memoized, and the key it sends is
\* the memoized one (the stored one only when it fetched itself).
FetchesStoredKeyUnlessMemoized ==
    sent.issued =>
        IF variant = "streamlitapp"
        THEN /\ fetches <= 1
             /\ cache # <<>>
             /\ sent.key = Txt(cache[1].obj[ApiKeyName])
             /\ fetches = 1 => sent.key = Txt(store.encodes)
        ELSE /\ fetches = 1
             /\ cache = <<>>
             /\ sent.key = Txt(store.encodes)

\* streamlitapp.py, a later invocation: no fetch was issued and the key sent
\* is not the one the store holds.
StaleKeyWitness ==
    /\ variant = "streamlitapp"
    /\ invocation > 1
    /\ sent.issued
    /\ fetches = 0
    /\ store.encodes # <<>>
    /\ sent.key # Txt(store.encodes)

\* C4: after a non-success answer of the places service the search reported
\* one diagnostic with the status code and the body, returned an empty
\* sequence without raising, and the flow ended in an explicit "no results"
\* state without rendering a place list or a map.
NonSuccessEndsInNoResults ==
    (sent.issued /\ sent.status # HTTP_OK) =>
        /\ pc = "done"
        /\ restaurants = <<>>
        /\ Cardinality({i \in DOMAIN output : output[i].kind = "error"}) = 1
        /\ \A i \in DOMAIN output :
               output[i].kind = "error" => output[i].info = <<sent.status, sent.text>>
        /\ \E i \in DOMAIN output : output[i].kind = "no_results"
        /\ \A i \in DOMAIN output : output[i].kind \notin {"list", "map"}

\* C6: every record handed to the map layer of glutenfreefinder.py has a
\* non-null latitude and a non-null longitude.
MapRecordsHaveCoordinates ==
    \A i \in DOMAIN mapData : mapData[i].lat # None /\ mapData[i].lon # None

====
